---- MODULE Spec2Model ----
(***************************************************************************)
(* Model of the data-quality report generator (src/data_quality_report.py) *)
(* as a sequential state machine: the command line entry point main, the   *)
(* pipeline run_full_analysis (load, five analyzers, HTML rendering) and   *)
(* the quality score; and of the dashboard script (src/app.py) with its    *)
(* cached load-and-train step.                                             *)
(*                                                                         *)
(* Numbers.  A numeric cell is a fixed-point integer in units of 1/10000   *)
(* (four decimals).  Quartiles are kept in quarter units (x4) and the IQR  *)
(* fences in eighth units (x8), so the linear-interpolation quantile and   *)
(* Q1 - 1.5*IQR are exact.  A value rounded with round(x, 2) is an integer *)
(* number of hundredths.  A percentage that the code leaves unrounded is   *)
(* an exact fraction [num, den]; den = 0 is the NaN that 0/0 produces.     *)
(* mean and std of the outlier details are not modelled: nothing reads     *)
(* them but the HTML table.                                                *)
(***************************************************************************)
EXTENDS Integers, Sequences, FiniteSets, TLC

VARIABLES
    argv,         \* sys.argv, program name included
    file,         \* what pd.read_csv finds at the path
    pc,           \* position of the process
    df,           \* self.df
    report_data,  \* self.report_data: a function from the keys set so far
    output_path,  \* main's output_path local
    calls,        \* methods of DataQualityReport invoked so far, in order
    console,      \* kinds of message printed so far, in order
    exception,    \* the uncaught exception that ended the process, or "none"
    html,         \* the HTML file written by generate_html_report
    ret,          \* what run_full_analysis returned
    exitCode,     \* process exit status, -1 while running
    score,        \* value computed by _generate_quality_score_html, -1 before
    \* The dashboard (src/app.py):
    dataset,      \* the file .data/teen_phone_addiction_dataset.csv
    fitted,       \* the classifier rf.fit returns on that dataset
    cache,        \* the st.cache_data entry of load_and_train_model
    loads,        \* executions of the body of load_and_train_model so far
    sliders,      \* the values of the five sidebar sliders
    view,         \* what the last run of the script put on the page
    runs,         \* runs of the script so far
    predictions,  \* calls of model.predict_proba so far
    denominators  \* the denominators of the ratio divisions evaluated so far

appVars == <<dataset, fitted, cache, loads, sliders, view, runs, predictions,
             denominators>>

pipeVars == <<argv, file, pc, df, report_data, output_path, calls, console,
              exception, html, ret, exitCode, score>>

vars == <<pipeVars, appVars>>

(***************************************************************************)
(* Bounds and input alphabets                                              *)
(***************************************************************************)
MaxRows == 4
\* Rows of the three-column files.
MaxWideRows == 2
\* head(100): the prefix the type probes look at.
HeadRows == 100
\* Rows of the files whose analyzers run in every order.
MaxOrderRows == 1

UnitsPerOne == 100 * 100

\* Age values 10 and 200; Sleep_Hours values 10.0014 and 10.0118.
AgeVals == {10 * UnitsPerOne, 200 * UnitsPerOne}
HoursVals == {100014, 100118}
NameVals == {"a", "2021-05-01"}

NaNum == [na |-> TRUE, v |-> 0]
NaStr == [na |-> TRUE, v |-> ""]
Num(x) == [na |-> FALSE, v |-> x]
Str(s) == [na |-> FALSE, v |-> s]

\* An empty cell is a missing value.
AgeCells == {NaNum} \cup {Num(x) : x \in AgeVals}
HoursCells == {NaNum} \cup {Num(x) : x \in HoursVals}
NameCells == {NaStr} \cup {Str(s) : s \in NameVals}
\* In the two-column files Age is empty or 200.
OldAgeCells == {NaNum, Num(200 * UnitsPerOne)}

AgeCol == [name |-> "Age", dtype |-> "float64"]
HoursCol == [name |-> "Sleep_Hours", dtype |-> "float64"]
NameCol == [name |-> "name", dtype |-> "object"]

RowSeqs(cells) == UNION {[1..n -> cells] : n \in 0..MaxRows}

Csv(cols, rows) == [kind |-> "csv", cols |-> cols, rows |-> rows]

\* The CSV files: a header and up to MaxRows rows of cells.
CsvFiles ==
    {Csv(<<NameCol>>, r) : r \in RowSeqs({<<c>> : c \in NameCells})}
    \cup {Csv(<<AgeCol>>, r) : r \in RowSeqs({<<c>> : c \in AgeCells})}
    \cup {Csv(<<AgeCol, HoursCol>>, r) :
            r \in RowSeqs({<<a, h>> : a \in OldAgeCells, h \in HoursCells})}

\* Three-column files (two numeric columns and a text column), no empty cells.
WideRowVals ==
    {<<Num(a), Num(h), Str(n)>> : a \in AgeVals, h \in HoursVals, n \in NameVals}
WideFiles ==
    {Csv(<<AgeCol, HoursCol, NameCol>>, r) :
        r \in UNION {[1..n -> WideRowVals] : n \in 1..MaxWideRows}}

\* Long one-column files: a text column of year-like values "2021" closed by
\* the word "a", 7 rows and one row more than the probes' prefix.
LongFiles ==
    {Csv(<<NameCol>>, [i \in 1..n |-> <<Str(IF i < n THEN "2021" ELSE "a")>>]) :
        n \in {7, HeadRows + 1}}

NoFile == [kind |-> "missing", cols |-> <<>>, rows |-> <<>>]
Garbage == [kind |-> "unparsable", cols |-> <<>>, rows |-> <<>>]
Files == {NoFile, Garbage} \cup CsvFiles \cup WideFiles \cup LongFiles
\* The files whose analyzers run in every order: the short ones.
OrderFiles == {NoFile} \cup {f \in CsvFiles \cup WideFiles : Len(f.rows) <= MaxOrderRows}

NoneDf == [kind |-> "None", cols |-> <<>>, rows |-> <<>>]

Argvs == {<<"data_quality_report.py">>,
          <<"data_quality_report.py", "data.csv">>,
          <<"data_quality_report.py", "data.csv", "out.html">>}

\* What datetime.now().strftime('%Y-%m-%d %H:%M:%S') can return: two
\* consecutive seconds.
Instants == {"2024-01-01 10:00:00", "2024-01-01 10:00:01"}

NoHtml == [written |-> FALSE, path |-> "", generated |-> "", score |-> -1,
           recommendations |-> <<>>]

(***************************************************************************)
(* Generic helpers                                                         *)
(***************************************************************************)
Range(s) == {s[i] : i \in 1..Len(s)}

RECURSIVE SumSeq(_)
SumSeq(s) == IF s = <<>> THEN 0 ELSE Head(s) + SumSeq(Tail(s))

Frac(n, d) == [num |-> n, den |-> d]
IsNaN(f) == f.den = 0
\* IEEE comparisons: every comparison with NaN is false.
FracGt(f, g) == ~IsNaN(f) /\ ~IsNaN(g) /\ f.num * g.den > g.num * f.den
FracEq(f, g) == ~IsNaN(f) /\ ~IsNaN(g) /\ f.num * g.den = g.num * f.den
FracLe(f, g) == ~IsNaN(f) /\ ~IsNaN(g) /\ f.num * g.den <= g.num * f.den

\* round-half-even of n/d to an integer (d > 0), as round() does.
RoundHalfEven(n, d) ==
    LET q == n \div d
        r == n % d
    IN  IF 2 * r < d THEN q
        ELSE IF 2 * r > d THEN q + 1
        ELSE IF q % 2 = 0 THEN q ELSE q + 1

\* round(f, 2) of a fraction: a fraction over 100, NaN stays NaN.
Round2(f) == IF IsNaN(f) THEN f ELSE Frac(RoundHalfEven(f.num * 100, f.den), 100)

\* Ascending insertion sort of a sequence of integers.
RECURSIVE InsertAsc(_, _)
InsertAsc(x, s) ==
    IF s = <<>> THEN <<x>>
    ELSE IF x <= Head(s) THEN <<x>> \o s
    ELSE <<Head(s)>> \o InsertAsc(x, Tail(s))

RECURSIVE SortAsc(_)
SortAsc(s) == IF s = <<>> THEN <<>> ELSE InsertAsc(Head(s), SortAsc(Tail(s)))

\* The subsequence of s at the indices in K, order kept.
RECURSIVE SelectFrom(_, _, _)
SelectFrom(s, K, i) ==
    IF i > Len(s) THEN <<>>
    ELSE (IF i \in K THEN <<s[i]>> ELSE <<>>) \o SelectFrom(s, K, i + 1)

SelectIdx(s, K) == SelectFrom(s, K, 1)

\* A dict as a function from its keys.
EmptyDict == [k \in {} |-> 0]
\* Mutation: storing an entry replaces the dict by one holding that entry only.
PutMut(rd, key, val) == [k \in {key} |-> val]

Put(rd, key, val) == [k \in DOMAIN rd \cup {key} |-> IF k = key THEN val ELSE rd[k]]

(***************************************************************************)
(* load_data                                                               *)
(***************************************************************************)
\* pd.read_csv: fails on a missing or unparsable file.
ReadCsvOk(f) == f.kind = "csv"

\* Column type inference of pd.read_csv: a column without rows is object, a
\* column whose cells are all empty is float64 (all NaN).
InferDtype(f, k) ==
    IF Len(f.rows) = 0 THEN "object"
    ELSE IF \A i \in 1..Len(f.rows) : f.rows[i][k].na THEN "float64"
    ELSE f.cols[k].dtype

ReadCsv(f) ==
    LET dt(k) == InferDtype(f, k)
    IN  [kind |-> "df",
         cols |-> [k \in 1..Len(f.cols) |-> [name |-> f.cols[k].name, dtype |-> dt(k)]],
         rows |-> [i \in 1..Len(f.rows) |->
                     [k \in 1..Len(f.cols) |->
                        IF f.rows[i][k].na
                        THEN (IF dt(k) = "object" THEN NaStr ELSE NaNum)
                        ELSE f.rows[i][k]]]]

NRows(d) == Len(d.rows)
NCols(d) == Len(d.cols)
Column(d, k) == [i \in 1..NRows(d) |-> d.rows[i][k]]
ColumnNames(d) == [k \in 1..NCols(d) |-> d.cols[k].name]
\* s.dropna(): the values of the non-missing cells, in row order.
DropNa(col) == LET vs == [i \in 1..Len(col) |-> col[i].v]
               IN  SelectIdx(vs, {i \in 1..Len(vs) : ~col[i].na})

(***************************************************************************)
(* analyze_missing_values                                                  *)
(***************************************************************************)
\* df.isnull().sum(): missing cells of column k.
MissingCount(d, k) == Cardinality({i \in 1..NRows(d) : d.rows[i][k].na})

\* (missing / len(df)) * 100, unrounded; 0/0 is NaN.
MissingPct(d, k) == Frac(MissingCount(d, k) * 100, NRows(d))

\* sort_values('Missing %', ascending=False): stable, NaN last.
RECURSIVE InsertByPctDesc(_, _)
InsertByPctDesc(r, s) ==
    IF s = <<>> THEN <<r>>
    ELSE IF FracGt(r.MissingPct, Head(s).MissingPct)
              \/ (IsNaN(Head(s).MissingPct) /\ ~IsNaN(r.MissingPct))
         THEN <<r>> \o s
         ELSE <<Head(s)>> \o InsertByPctDesc(r, Tail(s))

RECURSIVE SortByPctDesc(_)
SortByPctDesc(s) ==
    IF s = <<>> THEN <<>>
    ELSE InsertByPctDesc(s[Len(s)], SortByPctDesc(SubSeq(s, 1, Len(s) - 1)))

MissingDf(d) ==
    SortByPctDesc([k \in 1..NCols(d) |->
        [Column |-> d.cols[k].name,
         MissingCount |-> MissingCount(d, k),
         MissingPct |-> MissingPct(d, k),
         DataType |-> d.cols[k].dtype]])

\* Mutation: the total counts the rows that have a missing cell.
TotalMissingMut(d) == Cardinality({i \in 1..NRows(d) : \E k \in 1..NCols(d) : d.rows[i][k].na})

\* missing.sum()
TotalMissing(d) == SumSeq([k \in 1..NCols(d) |-> MissingCount(d, k)])
\* df.shape[0] * df.shape[1]
TotalCells(d) == NRows(d) * NCols(d)
\* (total_missing / total_cells) * 100, unrounded
OverallMissingPct(d) == Frac(TotalMissing(d) * 100, TotalCells(d))

MissingReport(d) ==
    LET mdf == MissingDf(d)
        high == SelectIdx(mdf, {i \in 1..Len(mdf) : FracGt(mdf[i].MissingPct, Frac(50, 1))})
        some == SelectIdx(mdf, {i \in 1..Len(mdf) : FracGt(mdf[i].MissingPct, Frac(0, 1))})
    IN  [total_missing_cells |-> TotalMissing(d),
         total_cells |-> TotalCells(d),
         overall_missing_pct |-> Round2(OverallMissingPct(d)),
         columns_with_missing |-> Len(some),
         high_missing_columns |-> [i \in 1..Len(high) |-> high[i].Column],
         details |-> mdf]

(***************************************************************************)
(* analyze_outliers                                                        *)
(***************************************************************************)
\* df.select_dtypes(include=[np.number]).columns
IsNumeric(dtype) == dtype \in {"float64", "int64"}
NumericCols(d) ==
    SelectIdx([j \in 1..NCols(d) |-> j], {k \in 1..NCols(d) : IsNumeric(d.cols[k].dtype)})

\* data.quantile(q) for q = num/4 by linear interpolation, times 4:
\* position (n-1)*num/4 in the sorted data, 0-based.
QuantileX4(data, num) ==
    LET srt == SortAsc(data)
        pos == (Len(data) - 1) * num
        lo == (pos \div 4) + 1
        fr == pos % 4
    IN  IF fr = 0 THEN 4 * srt[lo]
        ELSE 4 * srt[lo] + fr * (srt[lo + 1] - srt[lo])

Q1x4(data) == QuantileX4(data, 1)
Q3x4(data) == QuantileX4(data, 3)
IQRx4(data) == Q3x4(data) - Q1x4(data)
\* Mutation: the lower fence adds 1.5 * IQR.
LowerBoundX8Mut(data) == 2 * Q1x4(data) + 3 * IQRx4(data)

\* Mutation: the upper fence is Q3 + 3 * IQR.
UpperBoundX8Mut(data) == 2 * Q3x4(data) + 6 * IQRx4(data)

\* Q1 - 1.5 * IQR and Q3 + 1.5 * IQR, times 8
LowerBoundX8(data) == 2 * Q1x4(data) - 3 * IQRx4(data)
UpperBoundX8(data) == 2 * Q3x4(data) + 3 * IQRx4(data)

\* data[(data < lower_bound) | (data > upper_bound)]
IsOutlier(x, data) == 8 * x < LowerBoundX8(data) \/ 8 * x > UpperBoundX8(data)
Outliers(data) == SelectIdx(data, {i \in 1..Len(data) : IsOutlier(data[i], data)})

\* round(x, 2) of a fixed-point value with `per` units per one: hundredths.
Round2Fixed(x, per) == RoundHalfEven(x, per \div 100)

DataMin(data) == SortAsc(data)[1]
DataMax(data) == SortAsc(data)[Len(data)]

\* col.lower() in ['age', 'price', 'quantity', 'count', 'amount'], for the
\* column names of the model.
IsAmountName(name) == name \in {"Age"}
\* col.lower() == 'age'
IsAgeName(name) == name \in {"Age"}

ImpossibleValues(name, data) ==
    (IF DataMin(data) < 0 /\ IsAmountName(name)
     THEN <<[flag |-> "Negative values found", value |-> Round2Fixed(DataMin(data), UnitsPerOne)]>>
     ELSE <<>>)
    \o
    (IF IsAgeName(name) /\ DataMax(data) > 120 * UnitsPerOne
     THEN <<[flag |-> "Age > 120 found", value |-> RoundHalfEven(DataMax(data), UnitsPerOne)]>>
     ELSE <<>>)

\* Mutation: the percentage is multiplied by 100 twice.
OutlierPctMut(data) == Frac(Len(Outliers(data)) * 100 * 100, Len(data))

\* (outlier_count / len(data)) * 100, unrounded
OutlierPct(data) == Frac(Len(Outliers(data)) * 100, Len(data))

OutlierDetail(name, data) ==
    [column |-> name,
     count |-> Len(data),
     min |-> Round2Fixed(DataMin(data), UnitsPerOne),
     max |-> Round2Fixed(DataMax(data), UnitsPerOne),
     Q1 |-> Round2Fixed(Q1x4(data), 4 * UnitsPerOne),
     Q3 |-> Round2Fixed(Q3x4(data), 4 * UnitsPerOne),
     IQR |-> Round2Fixed(IQRx4(data), 4 * UnitsPerOne),
     lower_bound |-> Round2Fixed(LowerBoundX8(data), 8 * UnitsPerOne),
     upper_bound |-> Round2Fixed(UpperBoundX8(data), 8 * UnitsPerOne),
     outlier_count |-> Len(Outliers(data)),
     outlier_pct |-> Round2(OutlierPct(data)),
     impossible_values |-> ImpossibleValues(name, data)]

\* Mutation: a column with any missing value is skipped.
OutlierDetailsMut(d) ==
    LET nc == NumericCols(d)
        kept == SelectIdx(nc, {i \in 1..Len(nc) : Len(DropNa(Column(d, nc[i]))) = NRows(d)})
    IN  [i \in 1..Len(kept) |->
            OutlierDetail(d.cols[kept[i]].name, DropNa(Column(d, kept[i])))]

\* The loop over numeric_cols: a column without a non-missing value is skipped.
OutlierDetails(d) ==
    LET nc == NumericCols(d)
        kept == SelectIdx(nc, {i \in 1..Len(nc) : Len(DropNa(Column(d, nc[i]))) # 0})
    IN  [i \in 1..Len(kept) |->
            OutlierDetail(d.cols[kept[i]].name, DropNa(Column(d, kept[i])))]

OutlierReport(d) ==
    IF NumericCols(d) = <<>>
    THEN [numeric_columns |-> 0, details |-> <<>>]
    ELSE LET det == OutlierDetails(d)
         IN  [numeric_columns |-> Len(NumericCols(d)),
              columns_with_outliers |->
                  Cardinality({i \in 1..Len(det) : det[i].outlier_count > 0}),
              total_outliers |-> SumSeq([i \in 1..Len(det) |-> det[i].outlier_count]),
              details |-> det]

(***************************************************************************)
(* analyze_duplicates                                                      *)
(***************************************************************************)
\* Mutation: duplicated(keep=False), every member of a group counts.
DuplicatedMut(s, i) == \E j \in 1..Len(s) : j # i /\ s[j] = s[i]

\* s.duplicated(): an element equal to an earlier one (missing equals missing).
Duplicated(s, i) == \E j \in 1..(i - 1) : s[j] = s[i]
\* Mutation: the example mask keeps the first occurrences out.
DuplicatedAnyMut(s, i) == \E j \in 1..(i - 1) : s[j] = s[i]

\* s.duplicated(keep=False): an element equal to any other one.
DuplicatedAny(s, i) == \E j \in 1..Len(s) : j # i /\ s[j] = s[i]

\* df.duplicated().sum()
ExactDuplicates(d) == Cardinality({i \in 1..NRows(d) : Duplicated(d.rows, i)})
\* (exact_duplicates / len(df)) * 100, unrounded
ExactDupPct(d) == Frac(ExactDuplicates(d) * 100, NRows(d))

Take(s, n) == SubSeq(s, 1, IF Len(s) < n THEN Len(s) ELSE n)

\* df[df.duplicated(keep=False)].head(10), when exact_duplicates > 0
DupExamples(d) ==
    IF ExactDuplicates(d) > 0
    THEN Take(SelectIdx(d.rows, {i \in 1..Len(d.rows) : DuplicatedAny(d.rows, i)}), 10)
    ELSE <<>>

\* any(key in col.lower() for key in ['id', 'key', 'code', 'number', 'email']),
\* which holds of none of the column names of the model.
IsKeyName(name) == name \in {}
PotentialKeyCols(d) ==
    SelectIdx([j \in 1..NCols(d) |-> j], {k \in 1..NCols(d) : IsKeyName(d.cols[k].name)})

KeyColDuplicates(d) ==
    LET keys == Take(PotentialKeyCols(d), 5)
        cnt(k) == Cardinality({i \in 1..NRows(d) : Duplicated(Column(d, k), i)})
        hit == SelectIdx(keys, {i \in 1..Len(keys) : cnt(keys[i]) > 0})
    IN  [i \in 1..Len(hit) |-> [column |-> d.cols[hit[i]].name, count |-> cnt(hit[i])]]

DuplicateReport(d) ==
    [exact_duplicates |-> ExactDuplicates(d),
     exact_duplicate_pct |-> Round2(ExactDupPct(d)),
     potential_key_columns |->
         LET pk == PotentialKeyCols(d) IN [i \in 1..Len(pk) |-> d.cols[pk[i]].name],
     key_column_duplicates |-> KeyColDuplicates(d),
     examples |-> Take(DupExamples(d), 5)]

(***************************************************************************)
(* analyze_data_types                                                      *)
(***************************************************************************)
\* s.nunique(): distinct non-missing values.
NUnique(col) == Cardinality(Range(DropNa(col)))

\* pd.to_numeric(..., errors='raise') / pd.to_datetime(..., errors='raise')
\* succeed on a text value, for the text values of the model.
ParsesNumeric(v) == v \in {"2021"}
ParsesDatetime(v) == v \in {"2021-05-01", "2021"}

\* The two probes on s.dropna().head(100) of an object column; each appends
\* its warning when every value of the prefix parses.
TypeWarningsOf(name, col) ==
    LET prefix == Take(DropNa(col), HeadRows)
    IN  (IF \A i \in 1..Len(prefix) : ParsesNumeric(prefix[i])
         THEN <<[column |-> name, warning |-> "appears numeric"]>> ELSE <<>>)
        \o
        (IF \A i \in 1..Len(prefix) : ParsesDatetime(prefix[i])
         THEN <<[column |-> name, warning |-> "appears to be datetime"]>> ELSE <<>>)

RECURSIVE TypeWarnings(_, _)
TypeWarnings(d, k) ==
    IF k > NCols(d) THEN <<>>
    ELSE (IF d.cols[k].dtype = "object"
          THEN TypeWarningsOf(d.cols[k].name, Column(d, k)) ELSE <<>>)
         \o TypeWarnings(d, k + 1)

\* unique_count / len(df) divides two Python ints: ZeroDivisionError without rows.
DataTypesRaises(d) == NCols(d) > 0 /\ NRows(d) = 0

DataTypesReport(d) ==
    [summary |-> [t \in {d.cols[k].dtype : k \in 1..NCols(d)} |->
                     Cardinality({k \in 1..NCols(d) : d.cols[k].dtype = t})],
     column_details |-> [k \in 1..NCols(d) |->
        [column |-> d.cols[k].name,
         dtype |-> d.cols[k].dtype,
         unique_values |-> NUnique(Column(d, k)),
         unique_pct |-> Round2(Frac(NUnique(Column(d, k)) * 100, NRows(d)))]],
     warnings |-> TypeWarnings(d, 1)]

(***************************************************************************)
(* analyze_categorical_values                                              *)
(***************************************************************************)
\* df.select_dtypes(include=['object', 'category']).columns
CategoricalCols(d) ==
    SelectIdx([j \in 1..NCols(d) |-> j], {k \in 1..NCols(d) : d.cols[k].dtype = "object"})

\* s.dropna().unique(): distinct values in first-seen order.
UniqueValues(col) ==
    LET vs == DropNa(col)
    IN  SelectIdx(vs, {i \in 1..Len(vs) : ~Duplicated(vs, i)})

\* s.value_counts(dropna=False): missing is a bucket of its own.
ValueCounts(col) ==
    [c \in Range(col) |-> Cardinality({i \in 1..Len(col) : col[i] = c})]

CategoricalReport(d) ==
    IF CategoricalCols(d) = <<>>
    THEN [columns |-> 0, details |-> <<>>]
    ELSE LET cc == CategoricalCols(d)
         IN  [columns |-> Len(cc),
              details |-> [i \in 1..Len(cc) |->
                 [column |-> d.cols[cc[i]].name,
                  dtype |-> d.cols[cc[i]].dtype,
                  unique_count |-> Len(UniqueValues(Column(d, cc[i]))),
                  unique_values |-> UniqueValues(Column(d, cc[i])),
                  value_counts |-> ValueCounts(Column(d, cc[i])),
                  has_nulls |-> \E r \in 1..NRows(d) : d.rows[r][cc[i]].na]]]

(***************************************************************************)
(* generate_html_report and its helpers                                    *)
(***************************************************************************)
\* create_outlier_boxplots: with exactly one numeric column the axes are
\* wrapped as [axes], so axes[0] is the array of three Axes and
\* ax.boxplot raises AttributeError.
BoxplotsRaise(d) == Len(NumericCols(d)) = 1

\* The template reads report_data['outliers']['columns_with_outliers'] and
\* ['total_outliers']: KeyError when analyze_outliers returned early.
TemplateRaises(rd) == "columns_with_outliers" \notin DOMAIN rd["outliers"]

\* min(a, b) of Python on a constant a and a float b given in 1/200: b is
\* taken only when b < a, so a NaN b yields a.
PyMin(a, b, bIsNaN) == IF ~bIsNaN /\ b < a THEN b ELSE a

\* Mutation: a column with outlier_pct of exactly 10 counts as well.
HighOutlierColsMut(details) ==
    Cardinality({i \in 1..Len(details) : ~FracGt(Frac(10, 1), details[i].outlier_pct)})

\* sum(1 for d in details if d['outlier_pct'] > 10)
HighOutlierCols(details) ==
    Cardinality({i \in 1..Len(details) : FracGt(details[i].outlier_pct, Frac(10, 1))})

\* Mutation: the duplicate deduction is added instead of subtracted.
RawScoreX200Mut(missing_pct, dup_pct, high_outlier_cols) ==
    100 * 200
    - PyMin(30 * 200, missing_pct.num, IsNaN(missing_pct))
    + PyMin(20 * 200, dup_pct.num * 4, IsNaN(dup_pct))
    - PyMin(20 * 200, high_outlier_cols * 5 * 200, FALSE)

\* The score before rounding, in units of 1/200, from overall_missing_pct and
\* exact_duplicate_pct (fractions over 100) and the number of details with
\* outlier_pct > 10.
RawScoreX200(missing_pct, dup_pct, high_outlier_cols) ==
    100 * 200
    - PyMin(30 * 200, missing_pct.num, IsNaN(missing_pct))
    - PyMin(20 * 200, dup_pct.num * 4, IsNaN(dup_pct))
    - PyMin(20 * 200, high_outlier_cols * 5 * 200, FALSE)

\* score = max(0, round(score))
QualityScoreOf(missing_pct, dup_pct, high_outlier_cols) ==
    LET r == RoundHalfEven(RawScoreX200(missing_pct, dup_pct, high_outlier_cols), 200)
    IN  IF r < 0 THEN 0 ELSE r

QualityScore(rd) ==
    QualityScoreOf(rd["missing"].overall_missing_pct,
                   rd["duplicates"].exact_duplicate_pct,
                   HighOutlierCols(rd["outliers"].details))

\* Mutation: the duplicate rule fires without duplicates too.
RecommendationsMut(rd) ==
    IF rd["duplicates"].exact_duplicates >= 0
    THEN <<"Remove Duplicates">> ELSE <<"Data quality looks good">>

\* The entries appended by the threshold rules of
\* _generate_recommendations_html, in the order of the code.
FiredRules(rd) ==
    LET det == rd["outliers"].details
    IN      (IF rd["missing"].high_missing_columns # <<>>
             THEN <<"High Missing Values">> ELSE <<>>)
            \o (IF FracGt(rd["missing"].overall_missing_pct, Frac(5, 1))
                THEN <<"Missing Data Strategy">> ELSE <<>>)
            \o (IF rd["duplicates"].exact_duplicates > 0
                THEN <<"Remove Duplicates">> ELSE <<>>)
            \o (IF \E i \in 1..Len(det) : det[i].impossible_values # <<>>
                THEN <<"Investigate Impossible Values">> ELSE <<>>)
            \o (IF \E i \in 1..Len(det) : FracGt(det[i].outlier_pct, Frac(10, 1))
                THEN <<"Outlier Treatment">> ELSE <<>>)
            \o (IF "data_types" \in DOMAIN rd /\ rd["data_types"].warnings # <<>>
                THEN <<"Fix Data Types">> ELSE <<>>)

\* Mutation: the 'looks good' entry is appended whatever the rules appended.
RecommendationsAppendMut(rd) == FiredRules(rd) \o <<"Data quality looks good">>

\* _generate_recommendations_html: the list of <li> entries; the 'looks
\* good' entry when no rule appended one.
Recommendations(rd) ==
    IF FiredRules(rd) = <<>> THEN <<"Data quality looks good">> ELSE FiredRules(rd)

(***************************************************************************)
(* The dashboard (src/app.py).  Streamlit runs the script from top to      *)
(* bottom when the page is loaded and again on every change of a slider.   *)
(* Hours are in tenths, probabilities in thousandths.  The random forest   *)
(* is not modelled: the classifier fitted on a dataset is an arbitrary     *)
(* function from feature rows to probabilities, fixed per dataset.         *)
(***************************************************************************)
MaxRuns == 3
MaxDatasetRows == 2

\* st.sidebar.slider(label, min, max, default)
DailyUsageSlider == [min |-> 0, max |-> 120, default |-> 50]
SleepHoursSlider == [min |-> 30, max |-> 100, default |-> 70]
PhoneChecksSlider == [min |-> 0, max |-> 150, default |-> 50]
AppsUsedSlider == [min |-> 1, max |-> 20, default |-> 5]
SocialTimeSlider == [min |-> 0, max |-> 100, default |-> 20]

Sliders(u, s, c, a, t) ==
    [daily_usage |-> u, sleep_hours |-> s, phone_checks |-> c, apps_used |-> a,
     social_time |-> t]

DefaultSliders ==
    Sliders(DailyUsageSlider.default, SleepHoursSlider.default, PhoneChecksSlider.default,
            AppsUsedSlider.default, SocialTimeSlider.default)

\* A slider returns a value between its min and its max.
InSlider(x, sl) == sl.min <= x /\ x <= sl.max

\* The slider positions tried: the defaults, every slider at its minimum,
\* usage 10 / sleep 4 / checks 120 / apps 3 / social 6, and positions with
\* sleep 0 or apps 0, which no slider can take.
SliderPositions ==
    {DefaultSliders,
     Sliders(DailyUsageSlider.min, SleepHoursSlider.min, PhoneChecksSlider.min,
             AppsUsedSlider.min, SocialTimeSlider.min),
     Sliders(100, 40, 120, 3, 60),
     Sliders(50, 0, 50, 5, 20),
     Sliders(50, 70, 50, 0, 20)}

SliderInputs ==
    {s \in SliderPositions :
        /\ InSlider(s.daily_usage, DailyUsageSlider)
        /\ InSlider(s.sleep_hours, SleepHoursSlider)
        /\ InSlider(s.phone_checks, PhoneChecksSlider)
        /\ InSlider(s.apps_used, AppsUsedSlider)
        /\ InSlider(s.social_time, SocialTimeSlider)}

\* daily_usage / sleep_hours and phone_checks / apps_used on Python numbers:
\* ZeroDivisionError on a zero denominator.
RatioRaises(s) == s.sleep_hours = 0 \/ s.apps_used = 0

\* The row of input_data: the five inputs and the two ratios.
Features(s) ==
    <<s.daily_usage, s.sleep_hours, s.phone_checks, s.apps_used, s.social_time,
      Frac(s.daily_usage, s.sleep_hours), Frac(s.phone_checks, s.apps_used)>>

FeatureRows == {Features(s) : s \in SliderInputs}

\* predict_proba(...)[0][1] in thousandths.
Probs == {0, 399, 400, 1000}

\* threshold = 0.40, in thousandths
Threshold == 400

\* Mutation: the threshold itself is not high risk.
IsRiskMut(prob) == prob > Threshold

\* is_risk = prob >= threshold
IsRisk(prob) == prob >= Threshold

\* The dataset file: absent, or rows of the four columns the ratios read.
DataRow(u, s, c, a) ==
    [Daily_Usage_Hours |-> u, Sleep_Hours |-> s, Phone_Checks_Per_Day |-> c,
     Apps_Used_Daily |-> a]
DatasetRows == {DataRow(50, 70, 50, 5), DataRow(100, 0, 120, 3), DataRow(100, 40, 120, 0)}
NoDataset == [kind |-> "missing", rows |-> <<>>]
Datasets ==
    {NoDataset}
    \cup {[kind |-> "csv", rows |-> r] :
            r \in UNION {[1..n -> DatasetRows] : n \in 1..MaxDatasetRows}}

\* The denominators of df['Daily_Usage_Hours'] / df['Sleep_Hours'] and
\* df['Phone_Checks_Per_Day'] / df['Apps_Used_Daily'].
TrainingDenominators(ds) ==
    {ds.rows[i].Sleep_Hours : i \in 1..Len(ds.rows)}
    \cup {ds.rows[i].Apps_Used_Daily : i \in 1..Len(ds.rows)}

\* A pandas division by zero of a positive number gives inf, and rf.fit
\* raises ValueError on an infinite feature.
FitRaises(ds) == 0 \in TrainingDenominators(ds)

\* Mutation: without a dataset a model is returned all the same.
NoneModelMut == [trained |-> TRUE, proba |-> [f \in FeatureRows |-> 0]]

\* The model None that load_and_train_model returns without a dataset.
NoneModel == [trained |-> FALSE, proba |-> [f \in FeatureRows |-> 0]]
FittedModels == {[trained |-> TRUE, proba |-> p] : p \in [FeatureRows -> Probs]}

NoCache == [set |-> FALSE, model |-> NoneModel]

NoView == [stage |-> "none", prob |-> -1, is_risk |-> FALSE,
           risk |-> "", action |-> "", impact |-> ""]

\* The three columns of the page, each testing is_risk.
Page(prob) ==
    LET is_risk == IsRisk(prob)
    IN  [stage |-> "rendered", prob |-> prob, is_risk |-> is_risk,
         risk |-> IF is_risk THEN "HIGH RISK DETECTED" ELSE "Low Risk",
         action |-> IF is_risk THEN "Trigger Wellness Protocol"
                    ELSE "No intervention needed",
         impact |-> IF is_risk THEN "$2,473" ELSE "$0"]

\* The dashboard at rest, for the specifications of the report generator.
AppIdle ==
    /\ dataset = NoDataset
    /\ fitted = NoneModel
    /\ cache = NoCache
    /\ loads = 0
    /\ sliders = DefaultSliders
    /\ view = NoView
    /\ runs = 0
    /\ predictions = 0
    /\ denominators = {}

(***************************************************************************)
(* The process: main, run_full_analysis and the steps it calls             *)
(***************************************************************************)
\* Mutation: the usage branch exits with the status of a normal return.
UsageExitCodeMut == 1 - 1

\* sys.exit(1) after the usage message
UsageExitCode == 1
\* A process whose main returns exits with status 0; an uncaught exception
\* ends it with status 1.
NormalExitCode == 0
UncaughtExitCode == 1

\* len(sys.argv) < 2
NoPathGiven(a) == Len(a) < 2

\* self.filepath.stem + "_quality_report.html" for data.csv
DefaultOutputPath == "data_quality_report.html"

Init ==
    /\ argv \in Argvs
    /\ file \in Files
    /\ NoPathGiven(argv) => file = NoFile
    /\ pc = "main"
    /\ df = NoneDf
    /\ report_data = EmptyDict
    /\ output_path = "None"
    /\ calls = <<>>
    /\ console = <<>>
    /\ exception = "none"
    /\ html = NoHtml
    /\ ret = "unset"
    /\ exitCode = -1
    /\ score = -1
    /\ AppIdle

\* main without a path: usage message and sys.exit(1).
MainUsage ==
    /\ pc = "main"
    /\ NoPathGiven(argv)
    /\ console' = Append(console, "usage")
    /\ exitCode' = UsageExitCode
    /\ pc' = "exit"
    /\ UNCHANGED <<appVars, argv, file, df, report_data, output_path, calls, exception,
                   html, ret, score>>

\* main with a path: the report object is constructed and run_full_analysis
\* entered (its banner printed).
MainRun ==
    /\ pc = "main"
    /\ ~NoPathGiven(argv)
    /\ output_path' = IF Len(argv) > 2 THEN argv[3] ELSE "None"
    /\ calls' = calls \o <<"__init__", "run_full_analysis">>
    /\ console' = Append(console, "banner")
    /\ pc' = "load"
    /\ UNCHANGED <<appVars, argv, file, df, report_data, exception, html, ret, exitCode, score>>

\* Mutation: the except branch of load_data returns True as well.
LoadDataReturnsMut(f) == TRUE

\* The value load_data returns: True after read_csv, False from the except.
LoadDataReturns(f) == ReadCsvOk(f)

\* The uncaught exception e propagates out of run_full_analysis and main.
Raise(e) ==
    /\ exception' = e
    /\ exitCode' = UncaughtExitCode
    /\ pc' = "exit"

\* if not self.load_data(): return None
LoadData ==
    /\ pc = "load"
    /\ calls' = Append(calls, "load_data")
    /\ IF ReadCsvOk(file)
       THEN /\ df' = ReadCsv(file)
            /\ report_data' =
                 Put(Put(Put(Put(report_data, "filename", "data.csv"),
                     "rows", NRows(df')), "columns", NCols(df')),
                     "column_names", ColumnNames(df'))
            /\ console' = Append(console, "loaded")
       ELSE /\ console' = Append(console, "load_error")
            /\ UNCHANGED <<df, report_data>>
    /\ IF LoadDataReturns(file)
       THEN pc' = "missing" /\ ret' = ret
       ELSE pc' = "returned" /\ ret' = "None"
    /\ UNCHANGED <<appVars, argv, file, output_path, exception, html, exitCode, score>>

\* The entries of report_data the five analyzers store.
AnalyzerKeys == {"missing", "outliers", "duplicates", "data_types", "categorical"}

\* One analyzer step: on self.df = None the first attribute access raises
\* AttributeError; otherwise the analyzer stores its entry of report_data.
Analyzer(at, method, key, raises, value, next) ==
    /\ pc = at
    /\ calls' = Append(calls, method)
    /\ IF df.kind = "None"
       THEN Raise("AttributeError") /\ UNCHANGED <<report_data, console>>
       ELSE IF raises
       THEN Raise("ZeroDivisionError") /\ UNCHANGED <<report_data, console>>
       ELSE /\ report_data' = Put(report_data, key, value)
            /\ console' = Append(console, key)
            /\ pc' = next
            /\ UNCHANGED <<exception, exitCode>>
    /\ UNCHANGED <<appVars, argv, file, df, output_path, html, ret, score>>

AnalyzeMissingValues ==
    Analyzer("missing", "analyze_missing_values", "missing", FALSE,
             MissingReport(df), "outliers")

AnalyzeOutliers ==
    Analyzer("outliers", "analyze_outliers", "outliers", FALSE,
             OutlierReport(df), "duplicates")

\* Mutation: run_full_analysis goes from the duplicate analysis straight to
\* the report, without the data type and categorical analyses.
AnalyzeDuplicatesMut ==
    Analyzer("duplicates", "analyze_duplicates", "duplicates", FALSE,
             DuplicateReport(df), "charts")

AnalyzeDuplicates ==
    Analyzer("duplicates", "analyze_duplicates", "duplicates", FALSE,
             DuplicateReport(df), "data_types")

AnalyzeDataTypes ==
    Analyzer("data_types", "analyze_data_types", "data_types", DataTypesRaises(df),
             DataTypesReport(df), "categorical")

AnalyzeCategoricalValues ==
    Analyzer("categorical", "analyze_categorical_values", "categorical", FALSE,
             CategoricalReport(df), "charts")

\* generate_html_report, first part: the output path and the two charts.
RenderCharts ==
    /\ pc = "charts"
    /\ calls' = calls \o <<"generate_html_report", "create_missing_heatmap",
                           "create_outlier_boxplots">>
    /\ IF BoxplotsRaise(df)
       THEN Raise("AttributeError")
       ELSE pc' = "template" /\ UNCHANGED <<exception, exitCode>>
    /\ UNCHANGED <<appVars, argv, file, df, report_data, output_path, console, html, ret, score>>

\* generate_html_report, second part: the template is evaluated top to
\* bottom; the score and the recommendations are its last expressions.
RenderTemplate ==
    /\ pc = "template"
    /\ IF TemplateRaises(report_data)
       THEN Raise("KeyError") /\ UNCHANGED <<calls, score>>
       ELSE /\ calls' = calls \o <<"_generate_categorical_html",
                                   "_generate_quality_score_html",
                                   "_generate_recommendations_html">>
            /\ score' = QualityScore(report_data)
            /\ pc' = "write"
            /\ UNCHANGED <<exception, exitCode>>
    /\ UNCHANGED <<appVars, argv, file, df, report_data, output_path, console, html, ret>>

\* The document generate_html_report writes: the header and the footer carry
\* the time t of rendering; the tables, the score sc and the recommendations
\* are computed from report_data.
Document(rd, path, sc, t) ==
    [written |-> TRUE,
     path |-> IF path = "None" THEN DefaultOutputPath ELSE path,
     generated |-> t,
     score |-> sc,
     recommendations |-> Recommendations(rd)]

\* generate_html_report, last part: the document is written to output_path.
WriteHtml ==
    /\ pc = "write"
    /\ \E t \in Instants : html' = Document(report_data, output_path, score, t)
    /\ console' = Append(console, "saved")
    /\ pc' = "finish"
    /\ UNCHANGED <<appVars, argv, file, df, report_data, output_path, calls, exception,
                   ret, exitCode, score>>

\* run_full_analysis returns self.report_data.
Finish ==
    /\ pc = "finish"
    /\ console' = Append(console, "complete")
    /\ ret' = "report_data"
    /\ pc' = "returned"
    /\ UNCHANGED <<appVars, argv, file, df, report_data, output_path, calls, exception,
                   html, exitCode, score>>

\* main discards what run_full_analysis returned and returns.
MainReturn ==
    /\ pc = "returned"
    /\ exitCode' = NormalExitCode
    /\ pc' = "exit"
    /\ UNCHANGED <<appVars, argv, file, df, report_data, output_path, calls, console,
                   exception, html, ret, score>>

Next ==
    \/ MainUsage
    \/ MainRun
    \/ LoadData
    \/ AnalyzeMissingValues
    \/ AnalyzeOutliers
    \/ AnalyzeDuplicates
    \/ AnalyzeDataTypes
    \/ AnalyzeCategoricalValues
    \/ RenderCharts
    \/ RenderTemplate
    \/ WriteHtml
    \/ Finish
    \/ MainReturn

Spec == Init /\ [][Next]_vars

(***************************************************************************)
(* The quality score as a function of the analyzer outputs it reads: the   *)
(* inputs are drawn from bounded sets and raised one at a time, the score  *)
(* recomputed by _generate_quality_score_html after every change.          *)
(***************************************************************************)
MaxOutlierCols == 5

\* Percentages in hundredths, as round(x, 2) leaves them.
MissingPcts == {0, 1, 100, 101, 3333, 5999, 6000, 6001, 10000}
DupPcts == {0, 1, 25, 26, 500, 999, 1000, 1001, 7500}
OutlierPcts == {1000, 1001, 2500}

\* The entries of report_data that the scorer reads.
ScoreInputs(m, d, pcts) ==
    Put(Put(Put(EmptyDict,
        "missing", [overall_missing_pct |-> Frac(m, 100)]),
        "duplicates", [exact_duplicate_pct |-> Frac(d, 100)]),
        "outliers", [details |-> [i \in 1..Len(pcts) |-> [outlier_pct |-> Frac(pcts[i], 100)]]])

InMissingPct == report_data["missing"].overall_missing_pct.num
InDupPct == report_data["duplicates"].exact_duplicate_pct.num
InOutlierPcts ==
    [i \in 1..Len(report_data["outliers"].details) |->
        report_data["outliers"].details[i].outlier_pct.num]
InHighOutlierCols == HighOutlierCols(report_data["outliers"].details)

InitScore ==
    /\ argv = <<"data_quality_report.py", "data.csv">>
    /\ file = NoFile
    /\ pc = "score"
    /\ df = NoneDf
    /\ \E m \in MissingPcts, d \in DupPcts, p \in {<<>>} \cup {<<x>> : x \in OutlierPcts} :
         report_data = ScoreInputs(m, d, p)
    /\ output_path = "None"
    /\ calls = <<"_generate_quality_score_html">>
    /\ console = <<>>
    /\ exception = "none"
    /\ html = NoHtml
    /\ ret = "unset"
    /\ exitCode = -1
    /\ score = QualityScore(report_data)
    /\ AppIdle

Rescore(rd) ==
    /\ pc = "score"
    /\ report_data' = rd
    /\ score' = QualityScore(rd)
    /\ UNCHANGED <<appVars, argv, file, pc, df, output_path, calls, console, exception,
                   html, ret, exitCode>>

RaiseMissingPct ==
    \E m \in MissingPcts :
        /\ m > InMissingPct
        /\ Rescore(ScoreInputs(m, InDupPct, InOutlierPcts))

RaiseDuplicatePct ==
    \E d \in DupPcts :
        /\ d > InDupPct
        /\ Rescore(ScoreInputs(InMissingPct, d, InOutlierPcts))

AddOutlierColumn ==
    \E p \in OutlierPcts :
        /\ Len(InOutlierPcts) < MaxOutlierCols
        /\ Rescore(ScoreInputs(InMissingPct, InDupPct, Append(InOutlierPcts, p)))

NextScore == RaiseMissingPct \/ RaiseDuplicatePct \/ AddOutlierColumn

SpecScore == InitScore /\ [][NextScore]_vars

(***************************************************************************)
(* Rendering twice: a caller runs run_full_analysis and then calls         *)
(* generate_html_report again on the same object.                          *)
(***************************************************************************)
InitRender ==
    /\ Init
    /\ ~NoPathGiven(argv)

\* report.generate_html_report(output_path) after run_full_analysis returned
\* the report data: the charts, the template and the file once more.  The
\* first rendering went through, so neither the boxplots nor the template
\* raise.
GenerateAgain ==
    /\ pc = "returned"
    /\ ret = "report_data"
    /\ calls' = calls \o <<"generate_html_report", "create_missing_heatmap",
                           "create_outlier_boxplots", "_generate_categorical_html",
                           "_generate_quality_score_html",
                           "_generate_recommendations_html">>
    /\ score' = QualityScore(report_data)
    /\ \E t \in Instants : html' = Document(report_data, output_path, score', t)
    /\ console' = Append(console, "saved")
    /\ pc' = "rendered_again"
    /\ UNCHANGED <<appVars, argv, file, df, report_data, output_path, exception,
                   ret, exitCode>>

NextRender ==
    \/ MainRun
    \/ LoadData
    \/ AnalyzeMissingValues
    \/ AnalyzeOutliers
    \/ AnalyzeDuplicates
    \/ AnalyzeDataTypes
    \/ AnalyzeCategoricalValues
    \/ RenderCharts
    \/ RenderTemplate
    \/ WriteHtml
    \/ Finish
    \/ GenerateAgain

SpecRender == InitRender /\ [][NextRender]_vars

(***************************************************************************)
(* The analyzers in any order: a caller constructs the report object,      *)
(* calls load_data and, if it returned True, the five analyzers once each  *)
(* in an order of its choice, then generate_html_report.                   *)
(***************************************************************************)
InitAnyOrder ==
    /\ argv = <<"data_quality_report.py", "data.csv">>
    /\ file \in OrderFiles
    /\ pc = "load"
    /\ df = NoneDf
    /\ report_data = EmptyDict
    /\ output_path = "None"
    /\ calls = <<"__init__">>
    /\ console = <<>>
    /\ exception = "none"
    /\ html = NoHtml
    /\ ret = "unset"
    /\ exitCode = -1
    /\ score = -1
    /\ AppIdle

\* report.load_data(): on True the caller goes on to the analyzers.
LoadForAnalysis ==
    /\ pc = "load"
    /\ calls' = Append(calls, "load_data")
    /\ IF ReadCsvOk(file)
       THEN /\ df' = ReadCsv(file)
            /\ report_data' =
                 Put(Put(Put(Put(report_data, "filename", "data.csv"),
                     "rows", NRows(df')), "columns", NCols(df')),
                     "column_names", ColumnNames(df'))
            /\ console' = Append(console, "loaded")
            /\ pc' = "analyze"
       ELSE /\ console' = Append(console, "load_error")
            /\ pc' = "returned"
            /\ UNCHANGED <<df, report_data>>
    /\ UNCHANGED <<appVars, argv, file, output_path, exception, html, ret, exitCode, score>>

\* One analyzer, called when the caller has not called it yet; after the
\* fifth the caller renders.
InAnyOrder(method, key, raises, value) ==
    /\ key \notin DOMAIN report_data
    /\ Analyzer("analyze", method, key, raises, value,
                IF (AnalyzerKeys \ {key}) \subseteq DOMAIN report_data
                THEN "charts" ELSE "analyze")

MissingInAnyOrder ==
    InAnyOrder("analyze_missing_values", "missing", FALSE, MissingReport(df))

OutliersInAnyOrder ==
    InAnyOrder("analyze_outliers", "outliers", FALSE, OutlierReport(df))

DuplicatesInAnyOrder ==
    InAnyOrder("analyze_duplicates", "duplicates", FALSE, DuplicateReport(df))

DataTypesInAnyOrder ==
    InAnyOrder("analyze_data_types", "data_types", DataTypesRaises(df),
               DataTypesReport(df))

CategoricalInAnyOrder ==
    InAnyOrder("analyze_categorical_values", "categorical", FALSE,
               CategoricalReport(df))

NextAnyOrder ==
    \/ LoadForAnalysis
    \/ MissingInAnyOrder
    \/ OutliersInAnyOrder
    \/ DuplicatesInAnyOrder
    \/ DataTypesInAnyOrder
    \/ CategoricalInAnyOrder
    \/ RenderCharts
    \/ RenderTemplate
    \/ WriteHtml

SpecAnyOrder == InitAnyOrder /\ [][NextAnyOrder]_vars

(***************************************************************************)
(* The outlier analysis of one Age column: files of 2 to MaxAgeRows ages   *)
(* are loaded and analyzed up to analyze_outliers.                         *)
(***************************************************************************)
MaxAgeRows == 5

\* Ages 10, 80, 120.4 and 200.
LongAgeVals == {10 * UnitsPerOne, 80 * UnitsPerOne, 1204 * 1000, 200 * UnitsPerOne}

AgeFiles ==
    {Csv(<<AgeCol>>, r) :
        r \in UNION {[1..n -> {<<Num(x)>> : x \in LongAgeVals}] : n \in 2..MaxAgeRows}}

InitAge ==
    /\ argv = <<"data_quality_report.py", "data.csv">>
    /\ file \in AgeFiles
    /\ pc = "load"
    /\ df = NoneDf
    /\ report_data = EmptyDict
    /\ output_path = "None"
    /\ calls = <<"__init__", "run_full_analysis">>
    /\ console = <<"banner">>
    /\ exception = "none"
    /\ html = NoHtml
    /\ ret = "unset"
    /\ exitCode = -1
    /\ score = -1
    /\ AppIdle

NextAge == LoadData \/ AnalyzeMissingValues \/ AnalyzeOutliers

SpecAge == InitAge /\ [][NextAge]_vars

(***************************************************************************)
(* The dashboard process                                                   *)
(***************************************************************************)
InitApp ==
    /\ argv = <<"streamlit", "run", "app.py">>
    /\ file = NoFile
    /\ pc = "app"
    /\ df = NoneDf
    /\ report_data = EmptyDict
    /\ output_path = "None"
    /\ calls = <<>>
    /\ console = <<>>
    /\ exception = "none"
    /\ html = NoHtml
    /\ ret = "unset"
    /\ exitCode = -1
    /\ score = -1
    /\ dataset \in Datasets
    /\ fitted \in IF dataset.kind = "csv" /\ ~FitRaises(dataset)
                  THEN FittedModels ELSE {NoneModel}
    /\ cache = NoCache
    /\ loads = 0
    /\ sliders = DefaultSliders
    /\ view = NoView
    /\ runs = 0
    /\ predictions = 0
    /\ denominators = {}

\* Mutation: the cache never answers, the body runs on every call.
CacheHitMut == FALSE

\* st.cache_data: a stored return value is handed out without running the
\* body of load_and_train_model.
CacheHit == cache.set

\* What the body of load_and_train_model returns when it does not raise.
LoadAndTrainReturns == IF dataset.kind = "missing" THEN NoneModel ELSE fitted

\* One run of the script with the slider values s.
ScriptRun(s) ==
    LET hit == CacheHit
        raises == ~hit /\ dataset.kind = "csv" /\ FitRaises(dataset)
        model == IF hit THEN cache.model ELSE LoadAndTrainReturns
        trained == IF hit \/ dataset.kind = "missing" THEN {}
                   ELSE TrainingDenominators(dataset)
    IN  /\ runs < MaxRuns
        /\ runs' = runs + 1
        /\ loads' = IF hit THEN loads ELSE loads + 1
        /\ IF raises
           THEN /\ denominators' = denominators \cup trained
                /\ view' = [NoView EXCEPT !.stage = "ValueError"]
                /\ UNCHANGED <<cache, sliders, predictions>>
           ELSE /\ cache' = [set |-> TRUE, model |-> model]
                /\ IF ~model.trained
                   THEN /\ view' = [NoView EXCEPT !.stage = "stopped"]
                        /\ UNCHANGED <<sliders, predictions, denominators>>
                   ELSE /\ sliders' = s
                        /\ denominators' =
                             denominators \cup trained \cup {s.sleep_hours, s.apps_used}
                        /\ IF RatioRaises(s)
                           THEN /\ view' = [NoView EXCEPT !.stage = "ZeroDivisionError"]
                                /\ UNCHANGED predictions
                           ELSE /\ predictions' = predictions + 1
                                /\ view' = Page(model.proba[Features(s)])
        /\ UNCHANGED <<pipeVars, dataset, fitted>>

\* The page is opened or reloaded: the sliders are at their defaults.
PageLoad == ScriptRun(DefaultSliders)

\* A slider of the rendered page is moved.
InputChange ==
    /\ view.stage = "rendered"
    /\ \E s \in SliderInputs \ {sliders} : ScriptRun(s)

NextApp == PageLoad \/ InputChange

SpecApp == InitApp /\ [][NextApp]_vars

(***************************************************************************)
(* Claims                                                                  *)
(***************************************************************************)
AnalyzerMethods == {"analyze_missing_values", "analyze_outliers", "analyze_duplicates",
                    "analyze_data_types", "analyze_categorical_values"}
RenderMethods == {"generate_html_report", "create_missing_heatmap",
                  "create_outlier_boxplots", "_generate_categorical_html",
                  "_generate_quality_score_html", "_generate_recommendations_html"}

Called(m) == m \in Range(calls)
LoadFailed == Called("load_data") /\ df.kind = "None"
LoadSucceeded == Called("load_data") /\ df.kind = "df"

\* C1: when load_data fails, run_full_analysis aborts: no analyzer runs,
\* generate_html_report is never called, no HTML file is written and the
\* call returns None (no report data).
C1_LoadFailureAborts ==
    LoadFailed =>
        /\ Range(calls) \cap AnalyzerMethods = {}
        /\ Range(calls) \cap RenderMethods = {}
        /\ DOMAIN report_data \cap AnalyzerKeys = {}
        /\ ~html.written
        /\ ret = "None"
        /\ pc \in {"returned", "exit"}

\* C1 witness: a run whose load failed has ended.
C1_Witness == LoadFailed /\ pc = "exit" /\ file = Garbage

\* C2 (as claimed): when the load fails the process ends with a non-zero
\* exit code.
C2_LoadFailureExitsNonZero == (LoadFailed /\ pc = "exit") => exitCode # 0

\* C3: without a path argument the CLI prints the usage message and exits
\* with code 1; no report object is constructed, no file is loaded and no
\* output is written.
C3_NoPathUsageExit ==
    NoPathGiven(argv) =>
        /\ calls = <<>>
        /\ df.kind = "None"
        /\ report_data = EmptyDict
        /\ ~html.written
        /\ pc \in {"main", "exit"}
        /\ pc = "exit" => (exitCode = 1 /\ console = <<"usage">>)

\* C3 witness: the CLI has exited after being started without a path.
C3_Witness == NoPathGiven(argv) /\ pc = "exit"

\* C4: load -> five analyzers -> score -> render: an analyzer is called only
\* after a successful load, the report methods (scoring included) only
\* after all five analyzers were called and have stored their entries, and
\* the file is written only after the score was computed.
C4_PipelineOrder ==
    /\ \A i \in 1..Len(calls) :
         calls[i] \in AnalyzerMethods =>
            /\ df.kind = "df"
            /\ \E j \in 1..(i - 1) : calls[j] = "load_data"
    /\ \A i \in 1..Len(calls) :
         calls[i] \in RenderMethods =>
            /\ \A m \in AnalyzerMethods : \E j \in 1..(i - 1) : calls[j] = m
            /\ AnalyzerKeys \subseteq DOMAIN report_data
    /\ score # -1 => Called("_generate_quality_score_html")
    /\ html.written => (score # -1 /\ html.score = score)

\* C4 witness: a run that rendered and wrote its report.
C4_Witness == html.written /\ pc = "exit" /\ Len(calls) = 14

Analyzed(key) == key \in DOMAIN report_data
MissingDetails == report_data["missing"].details
OutlierDetailsOf == report_data["outliers"].details

\* C5: the per-column 'Missing Count' values of the missing-value details
\* sum to the reported total_missing_cells.
C5_MissingCountsSumToTotal ==
    Analyzed("missing") =>
        SumSeq([i \in 1..Len(MissingDetails) |-> MissingDetails[i].MissingCount])
            = report_data["missing"].total_missing_cells

\* C5 witness: missing cells in both columns of a two-column dataset, more
\* cells missing than rows have a missing cell.
C5_Witness ==
    /\ Analyzed("missing")
    /\ Len(MissingDetails) = 2
    /\ \A i \in 1..2 : MissingDetails[i].MissingCount > 0
    /\ report_data["missing"].total_missing_cells = 5

\* C6 (as claimed): every column's missing percentage lies in [0,100] and
\* equals missing count / row count x 100, and the reported overall missing
\* percentage equals total missing cells / (rows x columns) x 100.
C6_PercentagesExact ==
    Analyzed("missing") =>
        /\ \A i \in 1..Len(MissingDetails) :
             /\ FracLe(Frac(0, 1), MissingDetails[i].MissingPct)
             /\ FracLe(MissingDetails[i].MissingPct, Frac(100, 1))
             /\ FracEq(MissingDetails[i].MissingPct,
                       Frac(MissingDetails[i].MissingCount * 100, report_data["rows"]))
        /\ FracEq(report_data["missing"].overall_missing_pct,
                  Frac(report_data["missing"].total_missing_cells * 100,
                       report_data["rows"] * report_data["columns"]))

\* C6, what the code computes: with at least one row, every column's missing
\* percentage lies in [0,100] and equals missing count / row count x 100,
\* and the reported overall missing percentage is total missing cells /
\* (rows x columns) x 100 rounded to two decimals (within 0.005 of it);
\* with no rows the column percentages and the overall percentage are NaN.
C6_PercentagesRounded ==
    Analyzed("missing") =>
        LET rows == report_data["rows"]
            cells == report_data["rows"] * report_data["columns"]
            total == report_data["missing"].total_missing_cells
            overall == report_data["missing"].overall_missing_pct
        IN  IF rows >= 1
            THEN /\ \A i \in 1..Len(MissingDetails) :
                      /\ FracLe(Frac(0, 1), MissingDetails[i].MissingPct)
                      /\ FracLe(MissingDetails[i].MissingPct, Frac(100, 1))
                      /\ FracEq(MissingDetails[i].MissingPct,
                                Frac(MissingDetails[i].MissingCount * 100, rows))
                 /\ overall.den = 100
                 /\ 2 * (overall.num * cells - 10000 * total) <= cells
                 /\ 2 * (10000 * total - overall.num * cells) <= cells
            ELSE /\ \A i \in 1..Len(MissingDetails) : IsNaN(MissingDetails[i].MissingPct)
                 /\ IsNaN(overall)

\* C6, the rounding at work: one cell of three missing, reported as 33.33.
C6_Witness ==
    /\ Analyzed("missing")
    /\ report_data["missing"].total_missing_cells = 1
    /\ report_data["missing"].total_cells = 3
    /\ report_data["missing"].overall_missing_pct = Frac(3333, 100)

\* The non-missing values of the column an outlier detail describes.
DataOf(det) ==
    LET k == CHOOSE k \in 1..NCols(df) : df.cols[k].name = det.column
    IN  DropNa(Column(df, k))

\* C7 (as claimed): in every outlier detail lower_bound <= Q1 and
\* upper_bound >= Q3, with equality exactly when IQR = 0.
C7_BoundsEqualIffIqrZero ==
    Analyzed("outliers") =>
        \A i \in 1..Len(OutlierDetailsOf) :
            LET det == OutlierDetailsOf[i]
            IN  /\ det.lower_bound <= det.Q1
                /\ det.upper_bound >= det.Q3
                /\ (det.lower_bound = det.Q1) <=> (det.IQR = 0)
                /\ (det.upper_bound = det.Q3) <=> (det.IQR = 0)

\* C7 (amended): in every outlier detail lower_bound <= Q1 and
\* upper_bound >= Q3; the fences computed before rounding equal the
\* quartiles exactly when the computed IQR is 0, and then the reported
\* values are equal too and the reported IQR is 0.  (The reported values are
\* each rounded to two decimals, so they can be equal while the IQR is not 0.)
C7_BoundsOutsideQuartiles ==
    Analyzed("outliers") =>
        \A i \in 1..Len(OutlierDetailsOf) :
            LET det == OutlierDetailsOf[i]
                data == DataOf(det)
            IN  /\ det.lower_bound <= det.Q1
                /\ det.upper_bound >= det.Q3
                /\ (LowerBoundX8(data) = 2 * Q1x4(data)) <=> (IQRx4(data) = 0)
                /\ (UpperBoundX8(data) = 2 * Q3x4(data)) <=> (IQRx4(data) = 0)
                /\ LowerBoundX8(data) <= 2 * Q1x4(data)
                /\ UpperBoundX8(data) >= 2 * Q3x4(data)
                /\ IQRx4(data) = 0 =>
                      (det.lower_bound = det.Q1 /\ det.upper_bound = det.Q3 /\ det.IQR = 0)

\* C7 witness: a detail whose reported lower bound equals its reported Q1
\* although its reported IQR is 0.01.
C7_Witness ==
    /\ Analyzed("outliers")
    /\ \E i \in 1..Len(OutlierDetailsOf) :
         /\ OutlierDetailsOf[i].IQR = 1
         /\ OutlierDetailsOf[i].lower_bound = OutlierDetailsOf[i].Q1

\* C8: in every outlier detail outlier_count does not exceed 'count', the
\* number of non-missing values of the column, and outlier_pct lies in
\* [0,100].
C8_OutlierCountBounded ==
    Analyzed("outliers") =>
        \A i \in 1..Len(OutlierDetailsOf) :
            LET det == OutlierDetailsOf[i]
            IN  /\ det.count = Len(DataOf(det))
                /\ 0 <= det.outlier_count
                /\ det.outlier_count <= det.count
                /\ FracLe(Frac(0, 1), det.outlier_pct)
                /\ FracLe(det.outlier_pct, Frac(100, 1))

\* C8 witness: a column of four values, one of them an outlier (25 percent).
C8_Witness ==
    /\ Analyzed("outliers")
    /\ \E i \in 1..Len(OutlierDetailsOf) :
         /\ OutlierDetailsOf[i].outlier_count = 1
         /\ OutlierDetailsOf[i].count = 4
         /\ OutlierDetailsOf[i].outlier_pct = Frac(2500, 100)

GroupSize(row) == Cardinality({i \in 1..NRows(df) : df.rows[i] = row})

\* Sum of group size - 1 over the distinct rows in S.
RECURSIVE SumOfExtras(_)
SumOfExtras(S) ==
    IF S = {} THEN 0
    ELSE LET row == CHOOSE x \in S : TRUE
         IN  (GroupSize(row) - 1) + SumOfExtras(S \ {row})

\* C9: exact_duplicates is the sum, over the groups of fully identical rows
\* (missing equal to missing), of group size - 1.
C9_ExactDuplicatesByGroup ==
    Analyzed("duplicates") =>
        report_data["duplicates"].exact_duplicates
            = SumOfExtras(Range(df.rows))

\* C9 witness: two groups of two identical rows, one of them with a missing
\* cell: two exact duplicates.
C9_Witness ==
    /\ Analyzed("duplicates")
    /\ report_data["duplicates"].exact_duplicates = 2
    /\ Cardinality(Range(df.rows)) = 2
    /\ \A row \in Range(df.rows) : GroupSize(row) = 2
    /\ \E row \in Range(df.rows) : \E k \in 1..NCols(df) : row[k].na

\* C10: the quality score is an integer in [0,100] and does not increase
\* when overall_missing_pct, exact_duplicate_pct or the number of columns
\* with outlier_pct > 10 increases, the other two held fixed.
C10_ScoreBoundedMonotone ==
    /\ [](score \in 0..100)
    /\ [][(/\ InMissingPct' >= InMissingPct
           /\ InDupPct' >= InDupPct
           /\ InHighOutlierCols' >= InHighOutlierCols) => score' <= score]_vars

\* C10 witness: all three deductions at their caps, the score at 30.
C10_Witness ==
    /\ pc = "score"
    /\ InMissingPct = 10000
    /\ InDupPct = 7500
    /\ InHighOutlierCols = 5
    /\ score = 30

MinOf(a, b) == IF a <= b THEN a ELSE b
MaxOf(a, b) == IF a >= b THEN a ELSE b

\* 100 - min(30, m x 0.5) - min(20, d x 2) - min(20, 5 x h) clamped to
\* [0,100], in units of 1/200, for m and d in hundredths of a percent.
ClaimedScoreX200(m, d, h) ==
    MaxOf(0, MinOf(100 * 200,
        100 * 200 - MinOf(30 * 200, m) - MinOf(20 * 200, 4 * d) - MinOf(20 * 200, 5 * 200 * h)))

\* C11: for every combination of overall_missing_pct, exact_duplicate_pct
\* and outlier details, the score is an integer nearest to
\* 100 - min(30, overall_missing_pct x 0.5) - min(20, exact_duplicate_pct x 2)
\* - min(20, 5 x number of details with outlier_pct > 10) clamped to [0,100].
C11_ScoreFormula ==
    pc = "score" =>
        LET h == Cardinality({i \in 1..Len(InOutlierPcts) : InOutlierPcts[i] > 10 * 100})
            c == ClaimedScoreX200(InMissingPct, InDupPct, h)
        IN  /\ score \in Int
            /\ 2 * (200 * score - c) <= 200
            /\ 2 * (c - 200 * score) <= 200

\* C11 witness: 33.33 percent missing, 0.26 percent duplicates, two outlier
\* columns of which one is at exactly 10 percent: 100 - 16.665 - 0.52 - 5
\* is scored 78.
C11_Witness ==
    /\ pc = "score"
    /\ InMissingPct = 3333
    /\ InDupPct = 26
    /\ InOutlierPcts = <<1000, 1001>>
    /\ score = 78

LooksGood == <<"Data quality looks good">>

\* 0 missing cells, 0 exact duplicates and no column with outlier_pct > 10.
NoMissingDupOutlier ==
    /\ report_data["missing"].total_missing_cells = 0
    /\ report_data["duplicates"].exact_duplicates = 0
    /\ \A i \in 1..Len(OutlierDetailsOf) :
          ~FracGt(OutlierDetailsOf[i].outlier_pct, Frac(10, 1))

HasImpossibleValues ==
    \E i \in 1..Len(OutlierDetailsOf) : OutlierDetailsOf[i].impossible_values # <<>>
HasTypeWarnings == report_data["data_types"].warnings # <<>>

CountOf(data, x) == Cardinality({i \in 1..Len(data) : data[i] = x})

\* One value of data is 200 and the other values lie in [10,80].
OneTwoHundredAmongTeens(data) ==
    /\ CountOf(data, 200 * UnitsPerOne) = 1
    /\ \A i \in 1..Len(data) :
          data[i] # 200 * UnitsPerOne =>
              (10 * UnitsPerOne <= data[i] /\ data[i] <= 80 * UnitsPerOne)

AgeOver120Flags(det) ==
    {det.impossible_values[j] : j \in 1..Len(det.impossible_values)}

\* M is the maximum of data as printed without decimals: a whole number
\* within one half of it.
IsPrintedMax(m, data) ==
    /\ 2 * (m * UnitsPerOne - DataMax(data)) <= UnitsPerOne
    /\ 2 * (DataMax(data) - m * UnitsPerOne) <= UnitsPerOne

\* C13 (as claimed): for a numeric column named Age whose maximum exceeds 120
\* the detail carries the flag 'Age > 120 found (max: M)' with M the
\* maximum; and when one value is 200 and the other values lie in [10,80],
\* the 200 is counted among the column's IQR outliers.
C13_AgeFlagAndOutlier ==
    Analyzed("outliers") =>
        \A i \in 1..Len(OutlierDetailsOf) :
            LET det == OutlierDetailsOf[i]
                data == DataOf(det)
            IN  IsAgeName(det.column) =>
                  /\ DataMax(data) > 120 * UnitsPerOne =>
                        \E f \in AgeOver120Flags(det) :
                            /\ f.flag = "Age > 120 found"
                            /\ IsPrintedMax(f.value, data)
                  /\ OneTwoHundredAmongTeens(data) =>
                        /\ det.outlier_count >= 1
                        /\ IsOutlier(200 * UnitsPerOne, data)

\* C13 (amended): for a numeric column named Age whose maximum exceeds 120
\* the detail carries the flag 'Age > 120 found (max: M)' with M the maximum
\* (printed without decimals); and when the column has at least five
\* non-missing values, one of them 200 and the others in [10,80], the 200 is
\* counted among the column's IQR outliers.
C13_AgeFlagRoundedOutlierFromFive ==
    Analyzed("outliers") =>
        \A i \in 1..Len(OutlierDetailsOf) :
            LET det == OutlierDetailsOf[i]
                data == DataOf(det)
            IN  IsAgeName(det.column) =>
                  /\ DataMax(data) > 120 * UnitsPerOne =>
                        \E f \in AgeOver120Flags(det) :
                            /\ f.flag = "Age > 120 found"
                            /\ IsPrintedMax(f.value, data)
                  /\ (OneTwoHundredAmongTeens(data) /\ Len(data) >= 5) =>
                        /\ det.outlier_count >= 1
                        /\ IsOutlier(200 * UnitsPerOne, data)

\* C13 witness: the ages 10, 10, 80, 80 and 200: the flag with max 200 and
\* the 200 the only outlier.
C13_Witness ==
    /\ Analyzed("outliers")
    /\ Len(OutlierDetailsOf) = 1
    /\ OutlierDetailsOf[1].column = "Age"
    /\ OutlierDetailsOf[1].count = 5
    /\ OneTwoHundredAmongTeens(DataOf(OutlierDetailsOf[1]))
    /\ CountOf(DataOf(OutlierDetailsOf[1]), 80 * UnitsPerOne) = 2
    /\ OutlierDetailsOf[1].impossible_values = <<[flag |-> "Age > 120 found", value |-> 200]>>
    /\ OutlierDetailsOf[1].outlier_count = 1

\* The rows that belong to a group of two or more identical rows, in row
\* order.
GroupMembers == SelectIdx(df.rows, {i \in 1..NRows(df) : GroupSize(df.rows[i]) >= 2})

\* C14: when exact duplicates exist, the examples retained are the first 10
\* (or all, if fewer) of the rows that belong to any duplicate group, first
\* occurrences included, and the examples stored for the HTML report are the
\* first 5 (or all) of those; a single duplicated pair is stored with both
\* its rows; when no exact duplicates exist the example list is empty.
C14_DuplicateExamples ==
    Analyzed("duplicates") =>
        LET retained == DupExamples(df)
            stored == report_data["duplicates"].examples
        IN  IF report_data["duplicates"].exact_duplicates > 0
            THEN /\ Len(retained) = MinOf(10, Len(GroupMembers))
                 /\ retained = SubSeq(GroupMembers, 1, Len(retained))
                 /\ Len(stored) = MinOf(5, Len(retained))
                 /\ stored = SubSeq(retained, 1, Len(stored))
                 /\ \A i \in 1..Len(stored) : GroupSize(stored[i]) >= 2
                 /\ report_data["duplicates"].exact_duplicates = 1 =>
                       (Len(stored) = 2 /\ stored[1] = stored[2])
            ELSE retained = <<>> /\ stored = <<>>

\* C14 witness: 100 identical rows and one other row: 99 exact duplicates,
\* 10 examples retained, 5 stored.
C14_Witness ==
    /\ Analyzed("duplicates")
    /\ report_data["duplicates"].exact_duplicates = 99
    /\ Len(GroupMembers) = 100
    /\ Len(DupExamples(df)) = 10
    /\ Len(report_data["duplicates"].examples) = 5

\* The indices of the numeric columns of df with a non-missing value, in
\* column order.
NumericColsWithData ==
    SelectIdx([k \in 1..NCols(df) |-> k],
              {k \in 1..NCols(df) :
                  /\ df.cols[k].dtype \in {"float64", "int64"}
                  /\ \E i \in 1..NRows(df) : ~df.rows[i][k].na})

\* A numeric column of df without any non-missing value.
EntirelyMissingNumeric(k) ==
    /\ df.cols[k].dtype \in {"float64", "int64"}
    /\ \A i \in 1..NRows(df) : df.rows[i][k].na

\* C19: analyze_outliers does not raise on a loaded dataset; its details
\* hold exactly one entry for each numeric column with at least one
\* non-missing value, in column order, and none for an entirely missing
\* numeric column; every entry is the one computed from its own column's
\* non-missing values, whatever the other columns hold.
C19_EntirelyMissingSkipped ==
    /\ (Called("analyze_outliers") /\ df.kind = "df") => Analyzed("outliers")
    /\ Analyzed("outliers") =>
          /\ Len(OutlierDetailsOf) = Len(NumericColsWithData)
          /\ \A i \in 1..Len(OutlierDetailsOf) :
                LET k == NumericColsWithData[i]
                IN  /\ OutlierDetailsOf[i].column = df.cols[k].name
                    /\ OutlierDetailsOf[i].count =
                          Cardinality({r \in 1..NRows(df) : ~df.rows[r][k].na})
                    /\ OutlierDetailsOf[i] =
                          OutlierDetail(df.cols[k].name, DropNa(Column(df, k)))
          /\ \A k \in 1..NCols(df) :
                EntirelyMissingNumeric(k) =>
                    \A i \in 1..Len(OutlierDetailsOf) :
                        OutlierDetailsOf[i].column # df.cols[k].name

\* C19 witness: Age entirely missing next to a Sleep_Hours column with three
\* values and one missing: the details hold the Sleep_Hours entry alone.
C19_Witness ==
    /\ Analyzed("outliers")
    /\ NCols(df) = 2
    /\ EntirelyMissingNumeric(1)
    /\ report_data["outliers"].numeric_columns = 2
    /\ Len(OutlierDetailsOf) = 1
    /\ OutlierDetailsOf[1].column = "Sleep_Hours"
    /\ OutlierDetailsOf[1].count = 3
    /\ NRows(df) = 4

\* The type warnings emitted for the column named name.
WarningsFor(name) ==
    LET w == report_data["data_types"].warnings
    IN  {i \in 1..Len(w) : w[i].column = name}

\* C18 (as claimed): for every text-typed column analyze_data_types emits at
\* most one type warning: 'appears numeric' and 'appears to be datetime'
\* never both fire for the same column.
C18_AtMostOneTypeWarning ==
    Analyzed("data_types") =>
        \A k \in 1..NCols(df) :
            df.cols[k].dtype = "object" =>
                Cardinality(WarningsFor(df.cols[k].name)) <= 1

\* Some threshold rule of the recommendations fires on the analyzer results.
SomeRuleFires ==
    \/ \E i \in 1..Len(MissingDetails) : FracGt(MissingDetails[i].MissingPct, Frac(50, 1))
    \/ FracGt(report_data["missing"].overall_missing_pct, Frac(5, 1))
    \/ report_data["duplicates"].exact_duplicates > 0
    \/ HasImpossibleValues
    \/ \E i \in 1..Len(OutlierDetailsOf) :
          FracGt(OutlierDetailsOf[i].outlier_pct, Frac(10, 1))
    \/ HasTypeWarnings

\* C20: the recommendation list of a report contains the 'looks good' entry
\* if and only if no threshold rule fires (no column more than 50 percent
\* missing, overall missing <= 5 percent, no exact duplicate, no column with
\* implausible values, no column with outlier_pct > 10, no type warning);
\* when it appears it is the only entry, and the list is never empty.
C20_LooksGoodIffNoRule ==
    html.written =>
        /\ (\E i \in 1..Len(html.recommendations) :
               html.recommendations[i] = "Data quality looks good") <=> ~SomeRuleFires
        /\ (\E i \in 1..Len(html.recommendations) :
               html.recommendations[i] = "Data quality looks good")
              => Len(html.recommendations) = 1
        /\ html.recommendations # <<>>

\* C20 witness: a report on which five rules fire at once.
C20_Witness ==
    /\ html.written
    /\ SomeRuleFires
    /\ Len(html.recommendations) = 5
    /\ \A i \in 1..5 : html.recommendations[i] # "Data quality looks good"

\* The probability p, in thousandths, is at least 0.40.
AtLeastForty(p) == p * 100 >= 40 * 1000

\* C15: on every run of the dashboard that renders the page, the probability
\* shown is the cached model's prediction for the current slider values,
\* the classification is high risk if and only if that probability is
\* >= 0.40, and the risk panel, the recommended action and the financial
\* impact all follow that classification.
C15_SingleClassification ==
    view.stage = "rendered" =>
        /\ view.prob = cache.model.proba[Features(sliders)]
        /\ view.is_risk <=> AtLeastForty(view.prob)
        /\ view.risk = IF AtLeastForty(view.prob) THEN "HIGH RISK DETECTED" ELSE "Low Risk"
        /\ view.action = IF AtLeastForty(view.prob) THEN "Trigger Wellness Protocol"
                         ELSE "No intervention needed"
        /\ view.impact = IF AtLeastForty(view.prob) THEN "$2,473" ELSE "$0"

\* C15 witness: after a slider change the probability is exactly 0.40 and
\* the page shows high risk in all three panels.
C15_Witness ==
    /\ view.stage = "rendered"
    /\ runs >= 2
    /\ sliders # DefaultSliders
    /\ view.prob = 400
    /\ view.is_risk
    /\ view.risk = "HIGH RISK DETECTED"
    /\ view.action = "Trigger Wellness Protocol"
    /\ view.impact = "$2,473"

\* C16 (as claimed): the dashboard never evaluates usage_to_sleep_ratio or
\* checks_per_app with a zero denominator, neither on the slider values nor
\* on the dataset rows in load_and_train_model: a zero sleep_hours or
\* apps_used is rejected before the division.
C16_NoZeroDenominator ==
    /\ 0 \notin denominators
    /\ view.stage = "rendered" => (sliders.sleep_hours # 0 /\ sliders.apps_used # 0)

\* C17: load_and_train_model executes only when nothing is cached; once it
\* has returned, its value is cached for good, it has executed exactly once
\* and every later run gets the same cached model; every change of a slider
\* leaves the number of executions alone and calls predict_proba anew on the
\* new slider values.
C17_TrainedOnce ==
    /\ [](cache.set => loads = 1)
    /\ [](view.stage = "rendered" => (cache.set /\ cache.model = fitted))
    /\ [][cache.set => (cache' = cache /\ loads' = loads)]_vars
    /\ [][(view.stage = "rendered" /\ sliders' # sliders) =>
            /\ loads' = loads
            /\ predictions' = predictions + 1
            /\ view'.stage = "rendered"
            /\ view'.prob = cache.model.proba[Features(sliders')]]_vars

\* C17 witness: three runs, two of them after slider changes: one execution
\* of load_and_train_model, three predictions.
C17_Witness ==
    /\ runs = 3
    /\ loads = 1
    /\ predictions = 3
    /\ cache.set
    /\ sliders # DefaultSliders
    /\ view.stage = "rendered"

\* The fields of report_data['outliers'] that the template reads.
OutlierFieldsRead == {"numeric_columns", "columns_with_outliers", "total_outliers", "details"}

\* C23 (as claimed): after a successful load every outlier summary holds the
\* four fields the renderer reads, and the run ends only after
\* generate_html_report was called and the HTML report written, without an
\* exception, whatever the dataset, one without numeric columns included.
C23_RenderAlwaysReached ==
    /\ Analyzed("outliers") => OutlierFieldsRead \subseteq DOMAIN report_data["outliers"]
    /\ (LoadSucceeded /\ pc = "exit") =>
          /\ Called("generate_html_report")
          /\ html.written
          /\ exception = "none"

\* C24: with the dataset file missing, load_and_train_model yields no model,
\* every run ends at the error message and st.stop(): no slider value is
\* taken, no ratio computed, no prediction made; and in any process a
\* prediction is made only by a run that holds a trained model.
C24_MissingDatasetStops ==
    /\ [](dataset.kind = "missing" =>
            /\ cache.set => ~cache.model.trained
            /\ view.stage \in {"none", "stopped"}
            /\ runs >= 1 => (cache.set /\ view.stage = "stopped")
            /\ sliders = DefaultSliders
            /\ denominators = {}
            /\ predictions = 0)
    /\ [][predictions' # predictions =>
            (cache'.set /\ cache'.model.trained /\ dataset.kind = "csv")]_vars

\* C24 witness: the page was loaded twice without the dataset file: stopped
\* both times, the body of load_and_train_model ran once.
C24_Witness ==
    /\ dataset.kind = "missing"
    /\ runs = 2
    /\ loads = 1
    /\ cache.set
    /\ ~cache.model.trained
    /\ view.stage = "stopped"
    /\ predictions = 0

\* C21 (as claimed): rendering is deterministic: a rendering from the same
\* report_data as the rendering before it writes the same document.
C21_RenderDeterministic ==
    [][(html.written /\ html'.written /\ report_data' = report_data) => html' = html]_vars

LoadKeys == {"filename", "rows", "columns", "column_names"}
MethodOf(key) ==
    CASE key = "missing" -> "analyze_missing_values"
      [] key = "outliers" -> "analyze_outliers"
      [] key = "duplicates" -> "analyze_duplicates"
      [] key = "data_types" -> "analyze_data_types"
      [] key = "categorical" -> "analyze_categorical_values"

\* C22: after a successful load no analyzer and no rendering step changes the
\* dataset; a step that changes report_data is an analyzer adding its own
\* entry and leaving every other entry as it was; and once the five analyzers
\* have run, in whatever order, report_data holds the load entries and the
\* same five entries, each a function of the dataset alone.
C22_AnyOrderSameReport ==
    /\ [][df.kind = "df" => df' = df]_vars
    /\ [][(df.kind = "df" /\ report_data' # report_data) =>
            /\ \A k \in DOMAIN report_data :
                  k \in DOMAIN report_data' /\ report_data'[k] = report_data[k]
            /\ \E key \in AnalyzerKeys :
                  /\ DOMAIN report_data' = DOMAIN report_data \cup {key}
                  /\ calls' = Append(calls, MethodOf(key))]_vars
    /\ []((df.kind = "df" /\ AnalyzerKeys \subseteq DOMAIN report_data) =>
            /\ DOMAIN report_data = LoadKeys \cup AnalyzerKeys
            /\ report_data["rows"] = NRows(df)
            /\ report_data["columns"] = NCols(df)
            /\ report_data["column_names"] = ColumnNames(df)
            /\ report_data["missing"] = MissingReport(df)
            /\ report_data["outliers"] = OutlierReport(df)
            /\ report_data["duplicates"] = DuplicateReport(df)
            /\ report_data["data_types"] = DataTypesReport(df)
            /\ report_data["categorical"] = CategoricalReport(df))

\* C22 witness: the analyzers ran in the reverse of run_full_analysis's order
\* on a dataset with rows, and the report was written.
C22_Witness ==
    /\ NRows(df) >= 1
    /\ Len(calls) >= 7
    /\ SubSeq(calls, 3, 7) = <<"analyze_categorical_values", "analyze_data_types",
                               "analyze_duplicates", "analyze_outliers",
                               "analyze_missing_values">>
    /\ AnalyzerKeys \subseteq DOMAIN report_data
    /\ html.written

====
